---- MODULE Spec2Model ----
(***************************************************************************)
(* Crash-safe contract persistence of the renter (modules/renter/proto/    *)
(* contract.go): contract header, SafeContract file and update protocol    *)
(* (intent -> commit through the write-ahead log), and the ContractSet      *)
(* registry with its per-contract lease.                                    *)
(***************************************************************************)
EXTENDS Integers, Sequences, FiniteSets, TLC

(***************************************************************************)
(* Bounds of the model.                                                    *)
(***************************************************************************)
MaxTxns == 3        \* log transactions created in one behaviour of Spec
MaxFaults == 1      \* calls that return an I/O or log error in one behaviour
MaxCrashTxns == 3   \* log transactions created in one behaviour of SpecCrash
MaxCrashes == 1     \* process crashes in one behaviour
MaxReplayTxns == 1  \* log transactions created in one behaviour of SpecReplay
MaxInst == 2        \* SafeContract objects allocated in one process run
MaxLoadTxns == 3    \* log transactions in one behaviour of SpecLoad
MaxImports == 1     \* legacy records converted in one behaviour of SpecImport

IDs == {1, 2}         \* contract identifiers (types.FileContractID)
Callers == {1, 2}     \* threads of control that lease contracts
InitialRoot == 9      \* the Merkle root a contract may be created with
CachedRoot == 7       \* the Merkle root a cached revision of a v130 contract adds
ZeroHash == 0         \* the all-zero crypto.Hash of a preallocated slot
CostPairs == {<<2, 1>>}   \* (storageCost, bandwidthCost) of an upload
DownloadCosts == {1}      \* bandwidthCost of a download

(***************************************************************************)
(* Program constants.                                                      *)
(***************************************************************************)
contractHeaderSize == 4088   \* writeaheadlog.MaxPayloadSize
HashSize == 32               \* crypto.HashSize
updateNameSetHeader == "setHeader"
updateNameSetRoot == "setRoot"

(***************************************************************************)
(* contractHeader.  Of types.Transaction the model keeps the revisions and  *)
(* the signatures, as the revision number the signatures were made for (0  *)
(* if there are none); of a revision, its parent, its number, the file     *)
(* size in sectors, and how many valid-proof outputs and unlock keys it    *)
(* has.  The fields that are set once (SecretKey,                          *)
(* StartHeight, TotalCost, fees) travel with every whole-struct copy and   *)
(* are never assigned by this file, so they are left out.                  *)
(***************************************************************************)
Revision(id, n, size, outs, keys) ==
    [ParentID |-> id, NewRevisionNumber |-> n, NewFileSize |-> size,
     NewValidProofOutputs |-> outs, PublicKeys |-> keys]

Transaction(revs, sigs) ==
    [FileContractRevisions |-> revs, TransactionSignatures |-> sigs]

contractHeader(txn, dl, st, ul) ==
    [Transaction |-> txn, DownloadSpending |-> dl,
     StorageSpending |-> st, UploadSpending |-> ul]

\* the header every field of which is the zero value
ZeroHeader == contractHeader(Transaction(<<>>, 0), 0, 0, 0)

\* validate without the check of the unlock keys
validateAnyKeys(h) ==
    /\ Len(h.Transaction.FileContractRevisions) > 0
    /\ h.Transaction.FileContractRevisions[1].NewValidProofOutputs > 0

validate(h) ==
    /\ Len(h.Transaction.FileContractRevisions) > 0
    /\ h.Transaction.FileContractRevisions[1].NewValidProofOutputs > 0
    /\ h.Transaction.FileContractRevisions[1].PublicKeys = 2

LastRevision(h) == h.Transaction.FileContractRevisions[1]

ID(h) == LastRevision(h).ParentID

(***************************************************************************)
(* encoding.Marshal / Unmarshal of a header: the fields in declaration     *)
(* order.  A header slot of zero bytes decodes to ZeroHeader.              *)
(***************************************************************************)
Marshal(h) ==
    <<h.Transaction, h.DownloadSpending, h.StorageSpending, h.UploadSpending>>

Unmarshal(b) == contractHeader(b[1], b[2], b[3], b[4])

NoBytes == <<>>     \* nothing to read: the file ends before the header

Decodable(b) == Len(b) = 4

(***************************************************************************)
(* The contract file: header slot [0, contractHeaderSize) followed by      *)
(* HashSize-byte root slots.  rootsAt is the content of the root area,     *)
(* slot s (1-based) being the bytes at contractHeaderSize+HashSize*(s-1).  *)
(***************************************************************************)
NoFile == [exists |-> FALSE, hdr |-> NoBytes, rootsAt |-> <<>>]

File(hdr, roots) == [exists |-> TRUE, hdr |-> hdr, rootsAt |-> roots]

Zeros(n) == [i \in 1..n |-> ZeroHash]

\* f.WriteAt(headerBytes, 0)
WriteHeaderAt(file, bytes) == [file EXCEPT !.hdr = bytes]

\* f.WriteAt(root[:], off) with off in the root area; a write past the end
\* leaves a hole of zero bytes (and a zero header slot if there was none)
WriteRootAt(file, root, off) ==
    LET slot == ((off - contractHeaderSize) \div HashSize) + 1
        n == Len(file.rootsAt)
        grown == IF slot > n
                 THEN file.rootsAt \o Zeros(slot - n)
                 ELSE file.rootsAt
    IN [file EXCEPT !.rootsAt = [grown EXCEPT ![slot] = root],
                    !.hdr = IF file.hdr = NoBytes THEN Marshal(ZeroHeader)
                            ELSE file.hdr]

\* rootOffset one slot too far
rootOffsetPastSlot(index) == contractHeaderSize + HashSize * index + HashSize

rootOffset(index) == contractHeaderSize + HashSize * index

(***************************************************************************)
(* Write-ahead-log updates.                                                *)
(***************************************************************************)
makeUpdateSetHeader(id, h) ==
    [Name |-> updateNameSetHeader, Instructions |-> <<id, Marshal(h)>>]

makeUpdateSetRoot(id, root, index) ==
    [Name |-> updateNameSetRoot, Instructions |-> <<id, root, index>>]

VARIABLES
    files,      \* file name (the contract id) -> file as the process sees it
    disk,       \* file name -> the part of the file that survives a crash
    wal,        \* the log: every transaction created, with its applied flag
    heap,       \* the SafeContract objects of this process run
    contracts,  \* ContractSet.contracts: id -> index in heap, 0 if absent
    pc,         \* caller -> where it is
    held,       \* caller -> the SafeContract it leases, 0 if none
    loc,        \* caller -> locals of the call in progress
    last,       \* the call that returned last, and its result
    toLoad,     \* contract files the starting process has still to load
    faults,     \* errors injected so far
    crashes,    \* crashes so far
    ledger,     \* history: per SafeContract, what its successful commits add up to
    reinserted, \* history: identifiers inserted while already in the registry
    atCrash,    \* history: the upload intent the last crash interrupted, if any
    before      \* history: id -> the settled contract the last crash destroyed

vars == <<files, disk, wal, heap, contracts, pc, held, loc, last, toLoad,
          faults, crashes, ledger, reinserted, atCrash, before>>

hist == <<ledger, reinserted, atCrash, before>>

NoScenario == [ok |-> FALSE, file |-> NoFile, t |-> 0]

NoContract == [ok |-> FALSE, header |-> ZeroHeader, roots |-> <<>>]

NoLoc == [t |-> 0, root |-> ZeroHash, costs |-> <<0, 0>>, i |-> 0, j |-> 0]

\* op returned res; arg is the header op was given or read, if it takes one
Returned(op, res, arg) == [op |-> op, res |-> res, arg |-> arg]

SafeContract(h, n, txns, f) ==
    [header |-> h, numMerkleRoots |-> n, unappliedTxns |-> txns,
     f |-> f, mu |-> FALSE]

\* SafeContract.merkleRoots: every root slot of the file up to its end, and
\* whether the sanity check on their number fires
merkleRoots(file, sc) ==
    [roots |-> file.rootsAt, critical |-> Len(file.rootsAt) # sc.numMerkleRoots]

\* headers validate() rejects: no revision, no valid-proof output, and a
\* number of unlock keys other than 2
InvalidHeaders ==
    {ZeroHeader}
    \cup {contractHeader(Transaction(<<Revision(2, 1, 0, o, k)>>, 1), 0, 0, 0) :
             <<o, k>> \in {<<0, 2>>, <<1, 1>>, <<1, 3>>}}

InitialRoots == {<<>>, <<InitialRoot>>}

\* the header of a contract just formed for identifier id with the given roots
NewHeader(id, roots) ==
    contractHeader(Transaction(<<Revision(id, 1, Len(roots), 1, 2)>>, 1), 0, 0, 0)

\* what the contract directory may hold under the second name when the
\* process first starts: nothing, or a file with a damaged header
FoundFiles ==
    {NoFile} \cup {File(Marshal(h), <<>>) : h \in InvalidHeaders}

\* the process starts with the file found under the second name and with
\* log, the transactions the log holds
InitFrom(found, log) ==
    /\ files = [id \in IDs |-> IF id = 2 THEN found ELSE NoFile]
    /\ disk = files
    /\ toLoad = {id \in IDs : files[id].exists}
    /\ wal = log
    /\ heap = <<>>
    /\ contracts = [id \in IDs |-> 0]
    /\ pc = [c \in Callers |-> "idle"]
    /\ held = [c \in Callers |-> 0]
    /\ loc = [c \in Callers |-> NoLoc]
    /\ last = Returned("none", "ok", ZeroHeader)
    /\ faults = 0
    /\ crashes = 0
    /\ ledger = <<>>
    /\ reinserted = {}
    /\ atCrash = NoScenario
    /\ before = [id \in IDs |-> NoContract]

InitWith(found) == InitFrom(found, <<>>)

(***************************************************************************)
(* SafeContract.applySetHeader / applySetRoot on the files and the heap,   *)
(* st = [files, heap]; sc is the index of the contract in the heap.        *)
(***************************************************************************)
State(f, h) == [files |-> f, heap |-> h]

\* applySetHeader that sets c.header and leaves the file alone
applySetHeaderInMemory(st, sc, h) ==
    State(st.files, [st.heap EXCEPT ![sc].header = h])

applySetHeader(st, sc, h) ==
    State([st.files EXCEPT ![st.heap[sc].f] = WriteHeaderAt(@, Marshal(h))],
          [st.heap EXCEPT ![sc].header = h])

\* applySetRoot that counts every root it writes
applySetRootCountsAll(st, sc, root, index) ==
    State([st.files EXCEPT ![st.heap[sc].f] = WriteRootAt(@, root, rootOffset(index))],
          [st.heap EXCEPT ![sc].numMerkleRoots = @ + 1])

applySetRoot(st, sc, root, index) ==
    State([st.files EXCEPT ![st.heap[sc].f] = WriteRootAt(@, root, rootOffset(index))],
          [st.heap EXCEPT ![sc].numMerkleRoots = IF @ <= index THEN @ + 1 ELSE @])

\* f.Sync(): what the process sees of file name becomes durable
Sync(d, f, name) == [d EXCEPT ![name] = f[name]]

\* commitTxns without the case updateNameSetRoot
applyUpdateHeaderOnly(st, sc, update) ==
    IF update.Name = updateNameSetHeader
    THEN applySetHeader(st, sc, Unmarshal(update.Instructions[2]))
    ELSE st

\* one update of a logged transaction, as commitTxns dispatches it
applyUpdate(st, sc, update) ==
    IF update.Name = updateNameSetHeader
    THEN applySetHeader(st, sc, Unmarshal(update.Instructions[2]))
    ELSE IF update.Name = updateNameSetRoot
    THEN applySetRoot(st, sc, update.Instructions[2], update.Instructions[3])
    ELSE st

Running == toLoad = {}

\* what a SafeContract starts from: its spending and roots, exactly known
Tally(h, roots) ==
    [dl |-> h.DownloadSpending, st |-> h.StorageSpending,
     ul |-> h.UploadSpending, roots |-> roots, exact |-> TRUE]

\* the registry keyed by something else than the identifier of the header
RegisterElsewhere(map, id, sc) == [map EXCEPT ![3 - id] = sc]

\* the operations that assign cs.contracts[id] between cs.mu.Lock() and
\* cs.mu.Unlock(): managedInsertContract, also when ConvertV130Contract calls
\* it; loadSafeContract assigns without taking cs.mu
LocksRegistry == {"managedInsertContract", "ConvertV130Contract"}

\* cs.contracts[id] = sc
Register(map, id, sc) == [map EXCEPT ![id] = sc]

(***************************************************************************)
(* ContractSet.managedInsertContract.  failAt names the call that returns  *)
(* an error, "none" when every call succeeds.                              *)
(***************************************************************************)
InsertFailures == {"none", "create", "truncate", "header", "root", "sync"}

\* a managedInsertContract that leaves the root slots as Truncate made them
InsertedFileZeroRoots(h, roots, failAt) ==
    IF failAt = "truncate" THEN File(NoBytes, <<>>)
    ELSE WriteHeaderAt(File(Marshal(ZeroHeader), Zeros(Len(roots))), Marshal(h))

\* the file after the calls of managedInsertContract that precede failAt
InsertedFile(h, roots, failAt) ==
    CASE failAt = "truncate" -> File(NoBytes, <<>>)
      [] failAt = "header"   -> File(Marshal(ZeroHeader), Zeros(Len(roots)))
      [] failAt = "root"     -> WriteHeaderAt(File(Marshal(ZeroHeader),
                                                   Zeros(Len(roots))), Marshal(h))
      [] OTHER               -> File(Marshal(h), roots)

managedInsertContract(h, roots, failAt) ==
    /\ Running
    /\ IF ~validate(h)
       THEN /\ failAt = "none"
            /\ last' = Returned("managedInsertContract", "invalid", h)
            /\ UNCHANGED <<files, disk, heap, contracts, faults, ledger, reinserted>>
       ELSE IF failAt # "none"
       THEN /\ failAt = "root" => Len(roots) > 0
            /\ faults' = faults + 1
            /\ files' = IF failAt = "create" THEN files
                        ELSE [files EXCEPT ![ID(h)] = InsertedFile(h, roots, failAt)]
            /\ last' = Returned("managedInsertContract", "err", h)
            /\ UNCHANGED <<disk, heap, contracts, ledger, reinserted>>
       ELSE /\ files' = [files EXCEPT ![ID(h)] = InsertedFile(h, roots, failAt)]
            /\ disk' = Sync(disk, files', ID(h))
            /\ heap' = Append(heap, SafeContract(h, Len(roots), <<>>, ID(h)))
            /\ contracts' = Register(contracts, ID(h), Len(heap) + 1)
            /\ last' = Returned("managedInsertContract", "ok", h)
            /\ ledger' = Append(ledger, Tally(h, roots))
            /\ reinserted' = IF contracts[ID(h)] # 0
                             THEN reinserted \cup {ID(h)} ELSE reinserted
            /\ UNCHANGED faults
    /\ UNCHANGED <<wal, pc, held, loc, toLoad, crashes, atCrash, before>>

(***************************************************************************)
(* ContractSet.loadSafeContract(filename, walTxns), called for every file  *)
(* of the directory when the process starts; walTxns are the transactions  *)
(* the log still holds as not applied.                                     *)
(***************************************************************************)
\* indices in wal of the transactions not yet signalled applied, in log order
walTxns == SelectSeq([i \in 1..Len(wal) |-> i], LAMBDA i : ~wal[i].applied)

\* the contract id embedded in the first update of a transaction
FirstUpdateID(t) == wal[t].Updates[1].Instructions[1]

\* a loadSafeContract that attaches the transactions of every contract
RelevantTxnsOfAll(txns, id) ==
    SelectSeq(txns, LAMBDA t : Len(wal[t].Updates) > 0)

\* the transactions of txns attached to the contract with identifier id
RelevantTxns(txns, id) ==
    SelectSeq(txns, LAMBDA t : Len(wal[t].Updates) > 0 /\ FirstUpdateID(t) = id)

loadSafeContract(filename, fail) ==
    /\ filename \in toLoad
    /\ toLoad' = toLoad \ {filename}
    /\ LET file == files[filename] IN
       IF fail
       THEN /\ faults' = faults + 1
            /\ last' = Returned("loadSafeContract", "err", ZeroHeader)
            /\ UNCHANGED <<heap, contracts, ledger, reinserted>>
       ELSE IF ~Decodable(file.hdr)
       THEN /\ last' = Returned("loadSafeContract", "err", ZeroHeader)
            /\ UNCHANGED <<heap, contracts, faults, ledger, reinserted>>
       ELSE IF ~validate(Unmarshal(file.hdr))
       THEN /\ last' = Returned("loadSafeContract", "invalid", Unmarshal(file.hdr))
            /\ UNCHANGED <<heap, contracts, faults, ledger, reinserted>>
       ELSE LET header == Unmarshal(file.hdr) IN
            /\ heap' = Append(heap, SafeContract(header, Len(file.rootsAt),
                                    RelevantTxns(walTxns, ID(header)), filename))
            /\ contracts' = Register(contracts, ID(header), Len(heap) + 1)
            /\ last' = Returned("loadSafeContract", "ok", header)
            /\ ledger' = Append(ledger, Tally(header, file.rootsAt))
            /\ reinserted' = IF contracts[ID(header)] # 0
                             THEN reinserted \cup {ID(header)} ELSE reinserted
            /\ UNCHANGED faults
    /\ UNCHANGED <<files, disk, wal, pc, held, loc, crashes, atCrash, before>>

(***************************************************************************)
(* ContractSet.Acquire / Return: the lease is the SafeContract's mu.       *)
(***************************************************************************)
\* Acquire that hands the contract out without taking its mu
AcquireUnlocked(c, id) ==
    /\ Running
    /\ pc[c] = "idle"
    /\ IF contracts[id] = 0
       THEN /\ last' = Returned("Acquire", "notfound", ZeroHeader)
            /\ UNCHANGED <<heap, pc, held>>
       ELSE /\ heap' = [heap EXCEPT ![contracts[id]].mu = TRUE]
            /\ held' = [held EXCEPT ![c] = contracts[id]]
            /\ pc' = [pc EXCEPT ![c] = "leased"]
            /\ last' = Returned("Acquire", "ok", ZeroHeader)
    /\ UNCHANGED <<files, disk, wal, contracts, loc, toLoad, faults, crashes, hist>>

Acquire(c, id) ==
    /\ Running
    /\ pc[c] = "idle"
    /\ IF contracts[id] = 0
       THEN /\ last' = Returned("Acquire", "notfound", ZeroHeader)
            /\ UNCHANGED <<heap, pc, held>>
       ELSE /\ ~heap[contracts[id]].mu
            /\ heap' = [heap EXCEPT ![contracts[id]].mu = TRUE]
            /\ held' = [held EXCEPT ![c] = contracts[id]]
            /\ pc' = [pc EXCEPT ![c] = "leased"]
            /\ last' = Returned("Acquire", "ok", ZeroHeader)
    /\ UNCHANGED <<files, disk, wal, contracts, loc, toLoad, faults, crashes, hist>>

Return(c) ==
    /\ pc[c] = "leased"
    /\ heap' = [heap EXCEPT ![held[c]].mu = FALSE]
    /\ held' = [held EXCEPT ![c] = 0]
    /\ pc' = [pc EXCEPT ![c] = "idle"]
    /\ last' = Returned("Return", "ok", ZeroHeader)
    /\ UNCHANGED <<files, disk, wal, contracts, loc, toLoad, faults, crashes, hist>>

(***************************************************************************)
(* The calls of a lease holder.  A caller that has recorded an intent      *)
(* negotiates with the host and then commits with the host-signed          *)
(* transaction, the same root and the same costs, or gives the revision    *)
(* up.                                                                     *)
(***************************************************************************)
\* the revision a caller proposes next for the contract with header h; grow is
\* the number of sectors the revision adds
NextRevision(h, grow) ==
    Revision(ID(h), LastRevision(h).NewRevisionNumber + 1,
             LastRevision(h).NewFileSize + grow, 1, 2)

\* the root of the sector a caller uploads next
NextRoot == Len(wal) + 1

\* the transaction the host has signed for revision rev
SignedTxn(rev) == Transaction(<<rev>>, rev.NewRevisionNumber)

IntentFailures == {"none", "NewTransaction", "SignalSetupComplete"}

\* wal.NewTransaction(updates) followed by a successful SignalSetupComplete
NewTransaction(log, updates) == Append(log, [Updates |-> updates, applied |-> FALSE])

\* t.SignalUpdatesApplied()
SignalUpdatesApplied(log, t) == [log EXCEPT ![t].applied = TRUE]

\* a recordUploadIntent that logs the header without the storage cost
uploadIntentHeaderNoStorage(h, rev, costs) ==
    [h EXCEPT !.Transaction.FileContractRevisions = <<rev>>,
              !.UploadSpending = @ + costs[2]]

\* the header recordUploadIntent logs
uploadIntentHeader(h, rev, costs) ==
    [h EXCEPT !.Transaction.FileContractRevisions = <<rev>>,
              !.StorageSpending = @ + costs[1],
              !.UploadSpending = @ + costs[2]]

\* the header recordDownloadIntent logs
downloadIntentHeader(h, rev, cost) ==
    [h EXCEPT !.Transaction.FileContractRevisions = <<rev>>,
              !.DownloadSpending = @ + cost]

\* commitUpload that forgets the bandwidth cost
commitUploadHeaderNoBandwidth(h, signedTxn, costs) ==
    [h EXCEPT !.Transaction = signedTxn,
              !.StorageSpending = @ + costs[1]]

\* the header commitUpload applies
commitUploadHeaderOf(h, signedTxn, costs) ==
    [h EXCEPT !.Transaction = signedTxn,
              !.StorageSpending = @ + costs[1],
              !.UploadSpending = @ + costs[2]]

\* the header commitDownload applies
commitDownloadHeaderOf(h, signedTxn, cost) ==
    [h EXCEPT !.Transaction = signedTxn,
              !.DownloadSpending = @ + cost]

\* a recordUploadIntent that logs the root for the first slot
uploadUpdatesAtZero(sc, rev, root, costs) ==
    <<makeUpdateSetHeader(ID(sc.header), uploadIntentHeader(sc.header, rev, costs)),
      makeUpdateSetRoot(ID(sc.header), root, 0)>>

\* the updates recordUploadIntent hands to the log
uploadUpdates(sc, rev, root, costs) ==
    <<makeUpdateSetHeader(ID(sc.header), uploadIntentHeader(sc.header, rev, costs)),
      makeUpdateSetRoot(ID(sc.header), root, sc.numMerkleRoots)>>

\* the updates recordDownloadIntent hands to the log
downloadUpdates(sc, rev, cost) ==
    <<makeUpdateSetHeader(ID(sc.header), downloadIntentHeader(sc.header, rev, cost))>>

\* an intent that appends the transaction before it knows the log accepted it
recordIntentEagerly(sc, t, failAt) ==
    IF failAt = "NewTransaction"
    THEN sc
    ELSE [sc EXCEPT !.unappliedTxns = Append(@, t)]

\* what recordUploadIntent / recordDownloadIntent do to the SafeContract sc
\* when the log call failAt fails, t being the transaction the log made
recordIntent(sc, t, failAt) ==
    IF failAt = "none"
    THEN [sc EXCEPT !.unappliedTxns = Append(@, t)]
    ELSE sc

recordUploadIntent(c, root, costs, failAt) ==
    /\ pc[c] = "leased"
    /\ LET sc == heap[held[c]]
           rev == NextRevision(sc.header, 1)
       IN /\ heap' = [heap EXCEPT ![held[c]] = recordIntent(sc, Len(wal) + 1, failAt)]
          /\ IF failAt # "none"
             THEN /\ faults' = faults + 1
                  /\ last' = Returned("recordUploadIntent", "err", ZeroHeader)
                  /\ UNCHANGED <<wal, pc, loc>>
             ELSE /\ wal' = NewTransaction(wal, uploadUpdates(sc, rev, root, costs))
                  /\ loc' = [loc EXCEPT ![c] = [NoLoc EXCEPT !.t = Len(wal'),
                                                              !.root = root,
                                                              !.costs = costs]]
                  /\ pc' = [pc EXCEPT ![c] = "upload"]
                  /\ last' = Returned("recordUploadIntent", "ok", ZeroHeader)
                  /\ UNCHANGED faults
    /\ UNCHANGED <<files, disk, contracts, held, toLoad, crashes, hist>>

recordDownloadIntent(c, cost, failAt) ==
    /\ pc[c] = "leased"
    /\ LET sc == heap[held[c]]
           rev == NextRevision(sc.header, 0)
       IN /\ heap' = [heap EXCEPT ![held[c]] = recordIntent(sc, Len(wal) + 1, failAt)]
          /\ IF failAt # "none"
             THEN /\ faults' = faults + 1
                  /\ last' = Returned("recordDownloadIntent", "err", ZeroHeader)
                  /\ UNCHANGED <<wal, pc, loc>>
             ELSE /\ wal' = NewTransaction(wal, downloadUpdates(sc, rev, cost))
                  /\ loc' = [loc EXCEPT ![c] = [NoLoc EXCEPT !.t = Len(wal'),
                                                              !.costs = <<0, cost>>]]
                  /\ pc' = [pc EXCEPT ![c] = "download"]
                  /\ last' = Returned("recordDownloadIntent", "ok", ZeroHeader)
                  /\ UNCHANGED faults
    /\ UNCHANGED <<files, disk, contracts, held, toLoad, crashes, hist>>

\* the caller gives up the revision it recorded: the host did not sign it
Abandon(c) ==
    /\ pc[c] \in {"upload", "download"}
    /\ pc' = [pc EXCEPT ![c] = "leased"]
    /\ loc' = [loc EXCEPT ![c] = NoLoc]
    /\ last' = Returned("abandon", "ok", ZeroHeader)
    /\ UNCHANGED <<files, disk, wal, heap, contracts, held, toLoad, faults,
                   crashes, hist>>

\* the revision logged by transaction t
LoggedRevision(t) ==
    Unmarshal(wal[t].Updates[1].Instructions[2]).Transaction.FileContractRevisions[1]

\* the call op of lease holder c returns an error; dirty says that it had
\* written to the contract before
ReturnErr(c, op, dirty) ==
    /\ pc' = [pc EXCEPT ![c] = "leased"]
    /\ loc' = [loc EXCEPT ![c] = NoLoc]
    /\ last' = Returned(op, "err", ZeroHeader)
    /\ ledger' = IF dirty THEN [ledger EXCEPT ![held[c]].exact = FALSE] ELSE ledger
    /\ UNCHANGED <<reinserted, atCrash, before>>

\* an injected failure of a call made by op
Fail(c, op, dirty) ==
    /\ faults' = faults + 1
    /\ ReturnErr(c, op, dirty)

\* the call op of lease holder c goes on at pc value to
GoOn(c, op, to) ==
    /\ pc' = [pc EXCEPT ![c] = to]
    /\ last' = Returned(op, "run", ZeroHeader)
    /\ UNCHANGED <<loc, faults, hist>>

(***************************************************************************)
(* ContractSet.ConvertV130Contract(c, cr): h and roots are the header and  *)
(* the MerkleRoots of c, crRev and crRoots the Revision and the            *)
(* MerkleRoots of cr.  The contract it acquires is the one it has just     *)
(* inserted, which nobody holds.                                           *)
(***************************************************************************)
\* the cached revision is taken for a download unless it is one root short
CachedIntentKindAtLeast(crRoots, numMerkleRoots) ==
    IF Len(crRoots) >= numMerkleRoots + 1 THEN "upload" ELSE "download"

\* what the cached revision is replayed as
CachedIntentKind(crRoots, numMerkleRoots) ==
    IF Len(crRoots) = numMerkleRoots + 1 THEN "upload" ELSE "download"

\* the updates of the intent ConvertV130Contract records on sc
CachedUpdates(sc, crRev, crRoots) ==
    IF CachedIntentKind(crRoots, sc.numMerkleRoots) = "upload"
    THEN uploadUpdates(sc, crRev, crRoots[Len(crRoots)], <<0, 0>>)
    ELSE downloadUpdates(sc, crRev, 0)

ConvertV130Contract(h, roots, crRev, crRoots) ==
    /\ Running
    /\ IF ~validate(h)
       THEN /\ last' = Returned("ConvertV130Contract", "invalid", h)
            /\ UNCHANGED <<files, disk, wal, heap, contracts, ledger, reinserted>>
       ELSE LET sc == SafeContract(h, Len(roots), <<>>, ID(h)) IN
            /\ files' = [files EXCEPT ![ID(h)] = InsertedFile(h, roots, "none")]
            /\ disk' = Sync(disk, files', ID(h))
            /\ contracts' = Register(contracts, ID(h), Len(heap) + 1)
            /\ IF crRev.NewRevisionNumber # 0
               THEN /\ wal' = NewTransaction(wal, CachedUpdates(sc, crRev, crRoots))
                    /\ heap' = Append(heap, recordIntent(sc, Len(wal) + 1, "none"))
               ELSE /\ heap' = Append(heap, sc)
                    /\ UNCHANGED wal
            /\ last' = Returned("ConvertV130Contract", "ok", h)
            /\ ledger' = Append(ledger, Tally(h, roots))
            /\ reinserted' = IF contracts[ID(h)] # 0
                             THEN reinserted \cup {ID(h)} ELSE reinserted
    /\ UNCHANGED <<pc, held, loc, toLoad, faults, crashes, atCrash, before>>

(***************************************************************************)
(* SafeContract.commitUpload, one action per call it makes.                *)
(***************************************************************************)
commitUploadHeader(c, fail) ==
    /\ pc[c] = "upload"
    /\ LET newHeader == commitUploadHeaderOf(heap[held[c]].header,
                                             SignedTxn(LoggedRevision(loc[c].t)),
                                             loc[c].costs)
           st == applySetHeader(State(files, heap), held[c], newHeader)
       IN IF fail
          THEN Fail(c, "commitUpload", FALSE) /\ UNCHANGED <<files, heap>>
          ELSE /\ files' = st.files
               /\ heap' = st.heap
               /\ GoOn(c, "commitUpload", "cuRoot")
    /\ UNCHANGED <<disk, wal, contracts, held, toLoad, crashes>>

commitUploadRoot(c, fail) ==
    /\ pc[c] = "cuRoot"
    /\ LET st == applySetRoot(State(files, heap), held[c], loc[c].root,
                              heap[held[c]].numMerkleRoots)
       IN IF fail
          THEN Fail(c, "commitUpload", TRUE) /\ UNCHANGED <<files, heap>>
          ELSE /\ files' = st.files
               /\ heap' = st.heap
               /\ GoOn(c, "commitUpload", "cuSync")
    /\ UNCHANGED <<disk, wal, contracts, held, toLoad, crashes>>

\* a commitUpload that goes on to SignalUpdatesApplied without f.Sync()
commitUploadSyncSkipped(c, fail) ==
    /\ pc[c] = "cuSync"
    /\ IF fail
       THEN Fail(c, "commitUpload", TRUE)
       ELSE GoOn(c, "commitUpload", "cuSignal")
    /\ UNCHANGED <<files, disk, wal, heap, contracts, held, toLoad, crashes>>

commitUploadSync(c, fail) ==
    /\ pc[c] = "cuSync"
    /\ IF fail
       THEN Fail(c, "commitUpload", TRUE) /\ UNCHANGED disk
       ELSE /\ disk' = Sync(disk, files, heap[held[c]].f)
            /\ GoOn(c, "commitUpload", "cuSignal")
    /\ UNCHANGED <<files, wal, heap, contracts, held, toLoad, crashes>>

commitUploadSignal(c, fail) ==
    /\ pc[c] = "cuSignal"
    /\ IF fail
       THEN Fail(c, "commitUpload", TRUE) /\ UNCHANGED <<wal, heap>>
       ELSE IF wal[loc[c].t].applied
       THEN ReturnErr(c, "commitUpload", TRUE) /\ UNCHANGED <<wal, heap, faults>>
       ELSE /\ wal' = SignalUpdatesApplied(wal, loc[c].t)
            /\ heap' = [heap EXCEPT ![held[c]].unappliedTxns = <<>>]
            /\ pc' = [pc EXCEPT ![c] = "leased"]
            /\ loc' = [loc EXCEPT ![c] = NoLoc]
            /\ last' = Returned("commitUpload", "ok", ZeroHeader)
            /\ ledger' = [ledger EXCEPT ![held[c]].st = @ + loc[c].costs[1],
                                        ![held[c]].ul = @ + loc[c].costs[2],
                                        ![held[c]].roots = Append(@, loc[c].root)]
            /\ UNCHANGED <<faults, reinserted, atCrash, before>>
    /\ UNCHANGED <<files, disk, contracts, held, toLoad, crashes>>

(***************************************************************************)
(* SafeContract.commitDownload.                                            *)
(***************************************************************************)
commitDownloadHeader(c, fail) ==
    /\ pc[c] = "download"
    /\ LET newHeader == commitDownloadHeaderOf(heap[held[c]].header,
                                               SignedTxn(LoggedRevision(loc[c].t)),
                                               loc[c].costs[2])
           st == applySetHeader(State(files, heap), held[c], newHeader)
       IN IF fail
          THEN Fail(c, "commitDownload", FALSE) /\ UNCHANGED <<files, heap>>
          ELSE /\ files' = st.files
               /\ heap' = st.heap
               /\ GoOn(c, "commitDownload", "cdSync")
    /\ UNCHANGED <<disk, wal, contracts, held, toLoad, crashes>>

commitDownloadSync(c, fail) ==
    /\ pc[c] = "cdSync"
    /\ IF fail
       THEN Fail(c, "commitDownload", TRUE) /\ UNCHANGED disk
       ELSE /\ disk' = Sync(disk, files, heap[held[c]].f)
            /\ GoOn(c, "commitDownload", "cdSignal")
    /\ UNCHANGED <<files, wal, heap, contracts, held, toLoad, crashes>>

commitDownloadSignal(c, fail) ==
    /\ pc[c] = "cdSignal"
    /\ IF fail
       THEN Fail(c, "commitDownload", TRUE) /\ UNCHANGED <<wal, heap>>
       ELSE IF wal[loc[c].t].applied
       THEN ReturnErr(c, "commitDownload", TRUE) /\ UNCHANGED <<wal, heap, faults>>
       ELSE /\ wal' = SignalUpdatesApplied(wal, loc[c].t)
            /\ heap' = [heap EXCEPT ![held[c]].unappliedTxns = <<>>]
            /\ pc' = [pc EXCEPT ![c] = "leased"]
            /\ loc' = [loc EXCEPT ![c] = NoLoc]
            /\ last' = Returned("commitDownload", "ok", ZeroHeader)
            /\ ledger' = [ledger EXCEPT ![held[c]].dl = @ + loc[c].costs[2]]
            /\ UNCHANGED <<faults, reinserted, atCrash, before>>
    /\ UNCHANGED <<files, disk, contracts, held, toLoad, crashes>>

(***************************************************************************)
(* SafeContract.commitTxns: loc.i is the transaction of unappliedTxns at   *)
(* hand, loc.j the update of it to apply next.                             *)
(***************************************************************************)
\* a commitTxns that ranges over the last unapplied transaction only
commitTxnsBeginAtLast(c) ==
    /\ pc[c] = "leased"
    /\ IF heap[held[c]].unappliedTxns = <<>>
       THEN /\ last' = Returned("commitTxns", "ok", ZeroHeader)
            /\ UNCHANGED <<pc, loc>>
       ELSE /\ pc' = [pc EXCEPT ![c] = "ctUpdate"]
            /\ loc' = [loc EXCEPT ![c] =
                          [NoLoc EXCEPT !.i = Len(heap[held[c]].unappliedTxns),
                                        !.j = 1]]
            /\ last' = Returned("commitTxns", "run", ZeroHeader)
    /\ UNCHANGED <<files, disk, wal, heap, contracts, held, toLoad, faults,
                   crashes, hist>>

commitTxnsBegin(c) ==
    /\ pc[c] = "leased"
    /\ IF heap[held[c]].unappliedTxns = <<>>
       THEN /\ last' = Returned("commitTxns", "ok", ZeroHeader)
            /\ UNCHANGED <<pc, loc>>
       ELSE /\ pc' = [pc EXCEPT ![c] = "ctUpdate"]
            /\ loc' = [loc EXCEPT ![c] = [NoLoc EXCEPT !.i = 1, !.j = 1]]
            /\ last' = Returned("commitTxns", "run", ZeroHeader)
    /\ UNCHANGED <<files, disk, wal, heap, contracts, held, toLoad, faults,
                   crashes, hist>>

commitTxnsUpdate(c, fail) ==
    /\ pc[c] = "ctUpdate"
    /\ LET t == heap[held[c]].unappliedTxns[loc[c].i]
           st == applyUpdate(State(files, heap), held[c], wal[t].Updates[loc[c].j])
       IN IF fail
          THEN Fail(c, "commitTxns", TRUE) /\ UNCHANGED <<files, heap>>
          ELSE /\ files' = st.files
               /\ heap' = st.heap
               /\ pc' = [pc EXCEPT ![c] = IF loc[c].j = Len(wal[t].Updates)
                                          THEN "ctSync" ELSE "ctUpdate"]
               /\ loc' = [loc EXCEPT ![c].j = @ + 1]
               /\ last' = Returned("commitTxns", "run", ZeroHeader)
               /\ ledger' = [ledger EXCEPT ![held[c]].exact = FALSE]
               /\ UNCHANGED <<faults, reinserted, atCrash, before>>
    /\ UNCHANGED <<disk, wal, contracts, held, toLoad, crashes>>

commitTxnsSync(c, fail) ==
    /\ pc[c] = "ctSync"
    /\ IF fail
       THEN Fail(c, "commitTxns", TRUE) /\ UNCHANGED disk
       ELSE /\ disk' = Sync(disk, files, heap[held[c]].f)
            /\ GoOn(c, "commitTxns", "ctSignal")
    /\ UNCHANGED <<files, wal, heap, contracts, held, toLoad, crashes>>

commitTxnsSignal(c, fail) ==
    /\ pc[c] = "ctSignal"
    /\ LET sc == heap[held[c]]
           t == sc.unappliedTxns[loc[c].i]
       IN IF fail
          THEN Fail(c, "commitTxns", TRUE) /\ UNCHANGED <<wal, heap>>
          ELSE IF wal[t].applied
          THEN ReturnErr(c, "commitTxns", TRUE) /\ UNCHANGED <<wal, heap, faults>>
          ELSE /\ wal' = SignalUpdatesApplied(wal, t)
               /\ UNCHANGED <<faults, hist>>
               /\ IF loc[c].i = Len(sc.unappliedTxns)
                  THEN /\ heap' = [heap EXCEPT ![held[c]].unappliedTxns = <<>>]
                       /\ pc' = [pc EXCEPT ![c] = "leased"]
                       /\ loc' = [loc EXCEPT ![c] = NoLoc]
                       /\ last' = Returned("commitTxns", "ok", ZeroHeader)
                  ELSE /\ pc' = [pc EXCEPT ![c] = "ctUpdate"]
                       /\ loc' = [loc EXCEPT ![c].i = @ + 1, ![c].j = 1]
                       /\ last' = Returned("commitTxns", "run", ZeroHeader)
                       /\ UNCHANGED heap
    /\ UNCHANGED <<files, disk, contracts, held, toLoad, crashes>>

(***************************************************************************)
(* A crash of the process: memory is lost; of each file, every write since *)
(* its last Sync is kept or lost independently; the log keeps its          *)
(* transactions and which of them were signalled applied.                  *)
(***************************************************************************)
\* what slot s of the root area may hold after a crash: what it held at the
\* last Sync, what was written since, or zeros where the file had grown
SlotOutcomes(dr, fr, s) ==
    {dr[i] : i \in DOMAIN dr \cap {s}} \cup {fr[i] : i \in DOMAIN fr \cap {s}}
    \cup (IF s > Len(dr) THEN {ZeroHash} ELSE {})

RECURSIVE RootMixesOfLen(_, _, _)
RootMixesOfLen(dr, fr, n) ==
    IF n = 0 THEN {<<>>}
    ELSE {Append(y, v) : y \in RootMixesOfLen(dr, fr, n - 1),
                         v \in SlotOutcomes(dr, fr, n)}

RootMixes(dr, fr) ==
    RootMixesOfLen(dr, fr, Len(dr)) \cup RootMixesOfLen(dr, fr, Len(fr))

CrashOutcomes(d, f) ==
    IF ~f.exists THEN {NoFile}
    ELSE {d, f}
         \cup {File(x, y) : x \in {d.hdr, f.hdr} \ {NoBytes},
                            y \in RootMixes(d.rootsAt, f.rootsAt)}

\* the callers whose upload intent is recorded and whose commitUpload has not
\* begun, on a contract file that has no write waiting for a Sync
Interrupted ==
    {c \in Callers : /\ pc[c] = "upload"
                     /\ files[heap[held[c]].f] = disk[heap[held[c]].f]}

\* the header and the roots of the contract registered under id, if it has
\* seen successful calls only, no call is writing to it and its file is synced
Settled(id) ==
    LET i == contracts[id] IN
    IF /\ i # 0
       /\ ledger[i].exact
       /\ files[heap[i].f] = disk[heap[i].f]
       /\ \A c \in Callers : held[c] = i => pc[c] \in {"leased", "upload", "download"}
    THEN [ok |-> TRUE, header |-> heap[i].header, roots |-> ledger[i].roots]
    ELSE NoContract

Crash ==
    /\ crashes' = crashes + 1
    /\ \E o1 \in CrashOutcomes(disk[1], files[1]),
          o2 \in CrashOutcomes(disk[2], files[2]) :
            files' = [id \in IDs |-> IF id = 1 THEN o1 ELSE o2]
    /\ disk' = files'
    /\ heap' = <<>>
    /\ contracts' = [id \in IDs |-> 0]
    /\ pc' = [c \in Callers |-> "idle"]
    /\ held' = [c \in Callers |-> 0]
    /\ loc' = [c \in Callers |-> NoLoc]
    /\ toLoad' = {id \in IDs : files'[id].exists}
    /\ last' = Returned("crash", "ok", ZeroHeader)
    /\ ledger' = <<>>
    /\ reinserted' = {}
    /\ before' = [id \in IDs |-> Settled(id)]
    /\ atCrash' = IF Interrupted = {} THEN NoScenario
                  ELSE LET c == CHOOSE x \in Interrupted : TRUE
                       IN [ok |-> TRUE, file |-> files[heap[held[c]].f],
                           t |-> loc[c].t]
    /\ UNCHANGED <<wal, faults>>

(***************************************************************************)
(* Spec: one contract and one caller in one run of the process; the        *)
(* contract is inserted once and then revised, while calls may fail.       *)
(***************************************************************************)
Fails == IF faults < MaxFaults THEN BOOLEAN ELSE {FALSE}

FailsAt(points) == IF faults < MaxFaults THEN points ELSE {"none"}

Init == InitWith(NoFile)

Next ==
    \/ \E roots \in InitialRoots, failAt \in FailsAt(InsertFailures) :
         /\ ~files[1].exists
         /\ managedInsertContract(NewHeader(1, roots), roots, failAt)
    \/ Acquire(1, 1)
    \/ Return(1)
    \/ \E costs \in CostPairs, failAt \in FailsAt(IntentFailures) :
         /\ Len(wal) < MaxTxns
         /\ recordUploadIntent(1, NextRoot, costs, failAt)
    \/ \E cost \in DownloadCosts, failAt \in FailsAt(IntentFailures) :
         /\ Len(wal) < MaxTxns
         /\ recordDownloadIntent(1, cost, failAt)
    \/ Abandon(1)
    \/ \E fail \in Fails : commitUploadHeader(1, fail)
    \/ \E fail \in Fails : commitUploadRoot(1, fail)
    \/ \E fail \in Fails : commitUploadSync(1, fail)
    \/ \E fail \in Fails : commitUploadSignal(1, fail)
    \/ \E fail \in Fails : commitDownloadHeader(1, fail)
    \/ \E fail \in Fails : commitDownloadSync(1, fail)
    \/ \E fail \in Fails : commitDownloadSignal(1, fail)
    \/ commitTxnsBegin(1)
    \/ \E fail \in Fails : commitTxnsUpdate(1, fail)
    \/ \E fail \in Fails : commitTxnsSync(1, fail)
    \/ \E fail \in Fails : commitTxnsSignal(1, fail)

Spec == Init /\ [][Next]_vars

(***************************************************************************)
(* SpecCrash: one contract and one caller; every call succeeds, the        *)
(* process may crash at any point, and the restarted process loads the     *)
(* contract file with the transactions the log still holds.                *)
(***************************************************************************)
NextCrash ==
    \/ \E roots \in InitialRoots :
         /\ ~files[1].exists
         /\ managedInsertContract(NewHeader(1, roots), roots, "none")
    \/ loadSafeContract(1, FALSE)
    \/ Acquire(1, 1)
    \/ Return(1)
    \/ \E costs \in CostPairs :
         /\ Len(wal) < MaxCrashTxns
         /\ recordUploadIntent(1, NextRoot, costs, "none")
    \/ \E cost \in DownloadCosts :
         /\ Len(wal) < MaxCrashTxns
         /\ recordDownloadIntent(1, cost, "none")
    \/ Abandon(1)
    \/ commitUploadHeader(1, FALSE)
    \/ commitUploadRoot(1, FALSE)
    \/ commitUploadSync(1, FALSE)
    \/ commitUploadSignal(1, FALSE)
    \/ commitDownloadHeader(1, FALSE)
    \/ commitDownloadSync(1, FALSE)
    \/ commitDownloadSignal(1, FALSE)
    \/ commitTxnsBegin(1)
    \/ commitTxnsUpdate(1, FALSE)
    \/ commitTxnsSync(1, FALSE)
    \/ commitTxnsSignal(1, FALSE)
    \/ crashes < MaxCrashes /\ Crash

SpecCrash == Init /\ [][NextCrash]_vars

(***************************************************************************)
(* SpecAll: Spec and SpecCrash together, failing calls and crashes in one  *)
(* behaviour.                                                              *)
(***************************************************************************)
NextAll ==
    \/ Next
    \/ \E fail \in Fails : loadSafeContract(1, fail)
    \/ crashes < MaxCrashes /\ Crash

SpecAll == Init /\ [][NextAll]_vars

(***************************************************************************)
(* SpecSet: the registry with two identifiers and two callers; headers of  *)
(* every shape are inserted, also for an identifier that is registered,    *)
(* the directory may hold a damaged file, contracts are leased and         *)
(* returned, the process may crash and load its files again.               *)
(***************************************************************************)
InitSet == \E found \in FoundFiles : InitWith(found)

NextSet ==
    \/ \E id \in IDs, roots \in InitialRoots :
         /\ Len(heap) < MaxInst
         /\ managedInsertContract(NewHeader(id, roots), roots, "none")
    \/ \E h \in InvalidHeaders : managedInsertContract(h, <<>>, "none")
    \/ \E filename \in IDs :
         /\ Len(heap) < MaxInst
         /\ loadSafeContract(filename, FALSE)
    \/ \E c \in Callers, id \in IDs : Acquire(c, id)
    \/ \E c \in Callers : Return(c)
    \/ crashes < MaxCrashes /\ Crash

SpecSet == InitSet /\ [][NextSet]_vars

(***************************************************************************)
(* SpecReplay: one identifier, inserted any number of times, and one       *)
(* caller that records uploads and replays what is pending after a crash.  *)
(***************************************************************************)
NextReplay ==
    \/ \E roots \in InitialRoots :
         /\ Len(heap) < MaxInst
         /\ managedInsertContract(NewHeader(1, roots), roots, "none")
    \/ loadSafeContract(1, FALSE)
    \/ Acquire(1, 1)
    \/ Return(1)
    \/ \E costs \in CostPairs :
         /\ Len(wal) < MaxReplayTxns
         /\ recordUploadIntent(1, NextRoot, costs, "none")
    \/ Abandon(1)
    \/ commitTxnsBegin(1)
    \/ commitTxnsUpdate(1, FALSE)
    \/ commitTxnsSync(1, FALSE)
    \/ commitTxnsSignal(1, FALSE)
    \/ crashes < MaxCrashes /\ Crash

SpecReplay == Init /\ [][NextReplay]_vars

(***************************************************************************)
(* SpecLoad: two contracts and one caller that records uploads on them and *)
(* commits or abandons them; the log may hold a transaction without        *)
(* updates from the start; the process may crash and load its files with   *)
(* the transactions the log still holds.                                   *)
(***************************************************************************)
\* what the log may hold when the process first starts
FoundTxns == {<<>>, <<[Updates |-> <<>>, applied |-> FALSE]>>}

InitLoad == \E log \in FoundTxns : InitFrom(NoFile, log)

NextLoad ==
    \/ \E id \in IDs, roots \in InitialRoots :
         /\ ~files[id].exists
         /\ managedInsertContract(NewHeader(id, roots), roots, "none")
    \/ \E filename \in IDs : loadSafeContract(filename, FALSE)
    \/ \E id \in IDs : Acquire(1, id)
    \/ Return(1)
    \/ \E costs \in CostPairs :
         /\ Len(wal) < MaxLoadTxns
         /\ recordUploadIntent(1, NextRoot, costs, "none")
    \/ Abandon(1)
    \/ commitUploadHeader(1, FALSE)
    \/ commitUploadRoot(1, FALSE)
    \/ commitUploadSync(1, FALSE)
    \/ commitUploadSignal(1, FALSE)
    \/ crashes < MaxCrashes /\ Crash

SpecLoad == InitLoad /\ [][NextLoad]_vars

(***************************************************************************)
(* SpecImport: v130 contracts, with and without a cached revision, are     *)
(* converted; a caller leases a converted contract and replays what is     *)
(* pending on it.                                                          *)
(***************************************************************************)
\* the MerkleRoots a cached revision may come with
CachedRootSets ==
    {<<>>, <<InitialRoot>>, <<InitialRoot, CachedRoot>>,
     <<InitialRoot, CachedRoot, CachedRoot>>}

\* the Revision of a cached revision: number 0 if there is none
CachedRevisions(id, crRoots) ==
    {Revision(id, n, Len(crRoots), 1, 2) : n \in {0, 2}}

NextImport ==
    \/ \E id \in IDs, roots \in InitialRoots, crRoots \in CachedRootSets :
         \E crRev \in CachedRevisions(id, crRoots) :
            /\ Len(heap) < MaxImports
            /\ ConvertV130Contract(NewHeader(id, roots), roots, crRev, crRoots)
    \/ \E h \in InvalidHeaders :
         ConvertV130Contract(h, <<>>, Revision(2, 2, 0, 1, 2), <<>>)
    \/ \E id \in IDs : Acquire(1, id)
    \/ Return(1)
    \/ commitTxnsBegin(1)
    \/ commitTxnsUpdate(1, FALSE)
    \/ commitTxnsSync(1, FALSE)
    \/ commitTxnsSignal(1, FALSE)

SpecImport == Init /\ [][NextImport]_vars

(***************************************************************************)
(* Properties.                                                             *)
(***************************************************************************)
\* the header, the root and the root index transaction t logged
LoggedHeader(t) == Unmarshal(wal[t].Updates[1].Instructions[2])

LoggedRoot(t) == wal[t].Updates[2].Instructions[2]

LoggedIndex(t) == wal[t].Updates[2].Instructions[3]

\* the inner loop of commitTxns over the updates of one transaction
RECURSIVE applyUpdates(_, _, _)
applyUpdates(st, sc, updates) ==
    IF updates = <<>> THEN st
    ELSE applyUpdates(applyUpdate(st, sc, Head(updates)), sc, Tail(updates))

\* the SafeContract objects of identifier id a caller can get at: through the
\* registry or through a lease it holds
Live(id) ==
    {i \in 1..Len(heap) :
        /\ ID(heap[i].header) = id
        /\ \/ \E k \in IDs : contracts[k] = i
           \/ \E c \in Callers : held[c] = i}

\* the file holds a header whose revision covers exactly the roots written
FileConsistent(file) ==
    (Decodable(file.hdr) /\ validate(Unmarshal(file.hdr))) =>
        /\ LastRevision(Unmarshal(file.hdr)).NewFileSize = Len(file.rootsAt)
        /\ \A s \in DOMAIN file.rootsAt : file.rootsAt[s] # ZeroHash

\* C1: a crash between a successful recordUploadIntent and commitUpload, on
\* a contract file with no write waiting for a Sync: after the restart, and as
\* long as no update of the log has been replayed, the file is the file of
\* before the crash (the pre-revision header and roots); once commitTxns has
\* replayed the logged transaction and signalled it applied, the file holds,
\* durably, the logged header together with the logged root at the logged
\* index.
CrashAtomicity ==
    (atCrash.ok /\ Len(wal) = atCrash.t) =>
        /\ (\A i \in 1..Len(ledger) : ledger[i].exact) =>
              /\ files[1] = atCrash.file
              /\ disk[1] = atCrash.file
        /\ wal[atCrash.t].applied =>
              /\ files[1].hdr = Marshal(LoggedHeader(atCrash.t))
              /\ Len(files[1].rootsAt) > LoggedIndex(atCrash.t)
              /\ files[1].rootsAt[LoggedIndex(atCrash.t) + 1] = LoggedRoot(atCrash.t)
              /\ disk[1] = files[1]

\* C1 witness: the interrupted upload has been replayed after the restart
CrashReplayed ==
    /\ atCrash.ok
    /\ Len(wal) = atCrash.t
    /\ wal[atCrash.t].applied
    /\ files[1] # atCrash.file

\* C2 (amended): no two callers hold the lease of the same SafeContract at the
\* same time, and two callers hold leases of contracts with the same
\* identifier only if that identifier was inserted again while registered.
ExclusiveLease ==
    \A c1, c2 \in Callers :
        (c1 # c2 /\ held[c1] # 0 /\ held[c2] # 0) =>
            /\ held[c1] # held[c2]
            /\ ID(heap[held[c1]].header) = ID(heap[held[c2]].header)
                  => ID(heap[held[c1]].header) \in reinserted

\* C2 witness: both callers hold a lease, the second one just acquired
TwoLeases ==
    /\ held[1] # 0
    /\ held[2] # 0
    /\ reinserted = {}
    /\ last.op = "Acquire"
    /\ last.res = "ok"

\* C2 as stated: for every identifier at most one caller holds the lease
ExclusiveLeasePerID ==
    \A c1, c2 \in Callers :
        (c1 # c2 /\ held[c1] # 0 /\ held[c2] # 0) =>
            ID(heap[held[c1]].header) # ID(heap[held[c2]].header)

MetadataHeaderWritten ==
    [][\A i \in 1..Len(heap') :
          (i > Len(heap) \/ heap'[i].header # heap[i].header) =>
              Marshal(heap'[i].header) = files'[heap'[i].f].hdr]_vars

\* C4 witness: in the middle of commitUpload, an intent being logged, the
\* header in memory is the one written to the file and not yet synced
HeaderWrittenNotSynced ==
    /\ pc[1] = "cuRoot"
    /\ Marshal(heap[held[1]].header) = files[1].hdr
    /\ files[1].hdr # disk[1].hdr
    /\ heap[held[1]].unappliedTxns # <<>>

\* C4 as stated: the in-memory header is always one that is applied to the
\* file and fsynced
MetadataHeaderSynced ==
    \A i \in 1..Len(heap) : Marshal(heap[i].header) = disk[heap[i].f].hdr

\* C5 as stated: when commitUpload, commitDownload, commitTxns or
\* managedInsertContract has returned an error, no contract file holds a
\* header whose revision covers a root that was not written, nor a root that
\* the header's revision does not cover.
NoPartialApplication ==
    (/\ last.res = "err"
     /\ last.op \in {"commitUpload", "commitDownload", "commitTxns",
                     "managedInsertContract"})
        => \A id \in IDs : FileConsistent(files[id])

\* C6: as long as the calls on a contract were successful commits (and
\* intents), its header holds, outside of a commit, the spending it started
\* with plus the costs of the upload commits (storage, upload) and of the
\* download commits (download); and no step of commitUpload or commitDownload
\* makes any of the three smaller.
SpendingExact ==
    [][/\ \A i \in 1..Len(heap') :
             (/\ ledger'[i].exact
              /\ \A c \in Callers :
                    held'[c] = i => pc'[c] \in {"leased", "upload", "download"})
                => /\ heap'[i].header.StorageSpending = ledger'[i].st
                   /\ heap'[i].header.UploadSpending = ledger'[i].ul
                   /\ heap'[i].header.DownloadSpending = ledger'[i].dl
       /\ last'.op \in {"commitUpload", "commitDownload"} =>
             \A i \in 1..Len(heap) :
                /\ heap'[i].header.StorageSpending >= heap[i].header.StorageSpending
                /\ heap'[i].header.UploadSpending >= heap[i].header.UploadSpending
                /\ heap'[i].header.DownloadSpending >= heap[i].header.DownloadSpending
      ]_vars

\* C6 witness: two uploads and a download were committed
ThreeCommits ==
    \E i \in 1..Len(heap) :
        /\ ledger[i].exact
        /\ pc[1] = "leased"
        /\ heap[i].header.StorageSpending = 4
        /\ heap[i].header.UploadSpending = 2
        /\ heap[i].header.DownloadSpending = 1

\* C7: as long as the calls on a contract were successful commits (and
\* intents), the root area of its file is, outside of commitUpload, the roots
\* it started with followed by the roots of the committed uploads in the order
\* of the commits, and numMerkleRoots is their number.
RootOrdering ==
    \A i \in 1..Len(heap) :
        (/\ ledger[i].exact
         /\ \A c \in Callers : held[c] = i => pc[c] \notin {"cuSync", "cuSignal"})
            => /\ files[heap[i].f].rootsAt = ledger[i].roots
               /\ heap[i].numMerkleRoots = Len(ledger[i].roots)

\* C7 witness: three uploads to a contract created without roots
ThreeRoots ==
    /\ Len(heap) = 1
    /\ ledger[1].exact
    /\ crashes = 0
    /\ pc[1] = "leased"
    /\ files[1].rootsAt = <<1, 2, 3>>
    /\ heap[1].numMerkleRoots = 3

\* C8: a step in which recordUploadIntent or recordDownloadIntent returns an
\* error changes neither the contract files (as seen or as synced) nor any
\* SafeContract (header, numMerkleRoots, unappliedTxns), and the caller has no
\* transaction to commit.
FailedIntentNoEffect ==
    [][(/\ last'.op \in {"recordUploadIntent", "recordDownloadIntent"}
        /\ last'.res = "err")
          => /\ files' = files
             /\ disk' = disk
             /\ heap' = heap
             /\ loc' = loc
             /\ \A c \in Callers : pc'[c] = "leased" => loc'[c].t = 0]_vars

\* C8 witness: an intent on a contract with history has returned an error
IntentFailed ==
    /\ last.op \in {"recordUploadIntent", "recordDownloadIntent"}
    /\ last.res = "err"
    /\ Len(wal) > 0

\* C9 (amended): the registry maps an identifier to a SafeContract of that
\* identifier, and more than one SafeContract of one identifier, or on one
\* contract file, can be reached (through the registry or a lease) only if
\* that identifier was inserted again while it was registered.
RegistryUnique ==
    /\ \A id \in IDs :
          contracts[id] # 0 => ID(heap[contracts[id]].header) = id
    /\ \A id \in IDs : Cardinality(Live(id)) > 1 => id \in reinserted
    /\ \A i, j \in UNION {Live(id) : id \in IDs} :
          (i # j /\ heap[i].f = heap[j].f) => ID(heap[i].header) \in reinserted

\* C9 witness: after a restart both contracts are loaded and one is leased
BothLoaded ==
    /\ crashes = 1
    /\ contracts[1] # 0
    /\ contracts[2] # 0
    /\ \E c \in Callers : held[c] # 0
    /\ reinserted = {}

\* C9 as stated: at most one SafeContract per identifier can be reached
RegistryUniqueAlways ==
    \A id \in IDs : Cardinality(Live(id)) <= 1

\* C10: managedInsertContract of a header that validate() rejects returns the
\* validation error and changes no file and no registry entry, and
\* loadSafeContract of a file whose header validate() rejects returns the
\* validation error and registers nothing.
InvalidRejected ==
    [][/\ (last'.op = "managedInsertContract" /\ last'.arg \in InvalidHeaders)
             => /\ last'.res = "invalid"
                /\ files' = files
                /\ disk' = disk
                /\ heap' = heap
                /\ contracts' = contracts
       /\ (/\ last'.op = "loadSafeContract"
           /\ last'.res # "err"
           /\ last'.arg \in InvalidHeaders)
             => /\ last'.res = "invalid"
                /\ heap' = heap
                /\ contracts' = contracts]_vars

\* C10 witness: the file found under the second name was rejected on load,
\* and so was the header of a later insert
BothRejected ==
    /\ last.op = "managedInsertContract"
    /\ last.res = "invalid"
    /\ files[2].exists
    /\ contracts[2] = 0
    /\ crashes = 0

\* C11: when ConvertV130Contract succeeds on a record with a cached revision,
\* the contract it has inserted has exactly one pending transaction, the one
\* just logged: if the cached revision has one root more than the record,
\* a SetHeader with the cached revision followed by a SetRoot of the cached
\* revision's last root at the index after the stored roots; for every other
\* pair of root counts a SetHeader with the cached revision alone.
ImportIntentKind ==
    [][\A id \in IDs, roots \in InitialRoots, crRoots \in CachedRootSets :
          LET crRev == Revision(id, 2, Len(crRoots), 1, 2) IN
          ConvertV130Contract(NewHeader(id, roots), roots, crRev, crRoots) =>
             LET sc == heap'[Len(heap')]
                 us == wal'[Len(wal')].Updates
             IN /\ Len(wal') = Len(wal) + 1
                /\ sc.unappliedTxns = <<Len(wal')>>
                /\ ~wal'[Len(wal')].applied
                /\ us[1].Name = updateNameSetHeader
                /\ us[1].Instructions[1] = id
                /\ LastRevision(Unmarshal(us[1].Instructions[2])) = crRev
                /\ IF Len(crRoots) = Len(roots) + 1
                   THEN /\ Len(us) = 2
                        /\ us[2].Name = updateNameSetRoot
                        /\ us[2].Instructions = <<id, crRoots[Len(crRoots)], Len(roots)>>
                   ELSE Len(us) = 1]_vars

\* C11 witness: a record with one stored root and a cached revision of two
\* roots was converted, and its pending upload is attached to the contract
UploadImported ==
    /\ last.op = "ConvertV130Contract"
    /\ last.res = "ok"
    /\ Len(heap) = 1
    /\ heap[1].numMerkleRoots = 1
    /\ heap[1].unappliedTxns = <<1>>
    /\ Len(wal[1].Updates) = 2
    /\ wal[1].Updates[2].Instructions[2] = CachedRoot

RootSet(c, index) ==
    LET sc == held[c]
        n == heap[sc].numMerkleRoots
        slots == files[heap[sc].f].rootsAt
        slots2 == files'[heap[sc].f].rootsAt
    IN IF index = n
       THEN /\ heap'[sc].numMerkleRoots = n + 1
            /\ Len(slots2) = Len(slots) + 1
       ELSE /\ index < n
            /\ heap'[sc].numMerkleRoots = n
            /\ Len(slots2) = Len(slots)

\* the update commitTxns applies next for caller c
PendingUpdate(c) ==
    wal[heap[held[c]].unappliedTxns[loc[c].i]].Updates[loc[c].j]

\* C13: the file of every registered contract holds numMerkleRoots root slots, so that
\* the sanity check of merkleRoots() does not fire, and a SetRoot applied by
\* commitUpload or commitTxns at the index equal to the count adds one slot
\* and one to the count, at any other index it overwrites a slot the file
\* has and leaves the count alone.
RootCountInvariant ==
    /\ [](\A id \in IDs :
            contracts[id] # 0 =>
               LET sc == heap[contracts[id]] IN ~merkleRoots(files[sc.f], sc).critical)
    /\ [][\A c \in Callers :
             /\ commitUploadRoot(c, FALSE) =>
                   RootSet(c, heap[held[c]].numMerkleRoots)
             /\ (/\ commitTxnsUpdate(c, FALSE)
                 /\ PendingUpdate(c).Name = updateNameSetRoot) =>
                   RootSet(c, PendingUpdate(c).Instructions[3])]_vars

\* C14: a transaction is signalled applied only by the caller that holds the
\* contract, and at that moment the file holds the header with the logged
\* revision, for an upload also the logged root in its slot, and nothing
\* written to the file is waiting for a Sync; a commitUpload, commitDownload
\* or commitTxns that returns an error signals no transaction in its last
\* step and leaves unappliedTxns as it was.
CommitOrdering ==
    [][/\ \A t \in 1..Len(wal) :
             (wal'[t].applied /\ ~wal[t].applied) =>
                \E c \in Callers :
                   /\ pc[c] \in {"cuSignal", "cdSignal", "ctSignal"}
                   /\ LET f == heap[held[c]].f IN
                      /\ Decodable(files[f].hdr)
                      /\ LastRevision(Unmarshal(files[f].hdr)) = LoggedRevision(t)
                      /\ Len(wal[t].Updates) = 2 =>
                            /\ Len(files[f].rootsAt) > LoggedIndex(t)
                            /\ files[f].rootsAt[LoggedIndex(t) + 1] = LoggedRoot(t)
                      /\ disk[f] = files[f]
       /\ (/\ last'.op \in {"commitUpload", "commitDownload", "commitTxns"}
           /\ last'.res = "err") =>
             /\ wal' = wal
             /\ \A i \in 1..Len(heap) :
                   heap'[i].unappliedTxns = heap[i].unappliedTxns]_vars

\* C14 witness: an upload was committed and signalled applied after an
\* earlier commit had failed and left its transaction pending
CommittedAfterFailure ==
    /\ last.op = "commitUpload"
    /\ last.res = "ok"
    /\ faults = 1
    /\ Len(wal) = 2
    /\ ~wal[1].applied
    /\ wal[2].applied
    /\ ~ledger[1].exact

\* C15: a successful loadSafeContract attaches to the contract it registers
\* the transactions of the log that are not signalled applied, have an update
\* and carry the identifier of the header in their first update, each once
\* and in log order, and no other; the header and the root count of the
\* contract are those of the file, and the files, the log and the contracts
\* loaded before are left as they were.
LoadAttaches ==
    [][\A f \in IDs :
          (loadSafeContract(f, FALSE) /\ last'.res = "ok") =>
             LET sc == heap'[Len(heap')]
                 txns == sc.unappliedTxns
             IN /\ \A t \in 1..Len(wal) :
                      (\E k \in 1..Len(txns) : txns[k] = t) <=>
                         /\ ~wal[t].applied
                         /\ Len(wal[t].Updates) >= 1
                         /\ wal[t].Updates[1].Instructions[1] = ID(sc.header)
                /\ \A k \in 1..Len(txns) : txns[k] \in 1..Len(wal)
                /\ \A j, k \in 1..Len(txns) : j < k => txns[j] < txns[k]
                /\ sc.header = Unmarshal(files[f].hdr)
                /\ sc.numMerkleRoots = Len(files[f].rootsAt)
                /\ files' = files
                /\ disk' = disk
                /\ wal' = wal
                /\ SubSeq(heap', 1, Len(heap)) = heap]_vars

\* C15 witness: the log holds a pending upload of the second contract, then
\* an upload of the first contract that is signalled applied and one that is
\* pending; the load of the first contract has attached the last one alone
LoadedAmongOthers ==
    /\ last.op = "loadSafeContract"
    /\ last.res = "ok"
    /\ Len(wal) = 3
    /\ wal[1].Updates # <<>>
    /\ FirstUpdateID(1) = 2 /\ ~wal[1].applied
    /\ FirstUpdateID(2) = 1 /\ wal[2].applied
    /\ FirstUpdateID(3) = 1 /\ ~wal[3].applied
    /\ heap[Len(heap)].f = 1
    /\ heap[Len(heap)].unappliedTxns = <<3>>

\* C16: a recordUploadIntent or recordDownloadIntent that succeeds leaves the
\* files, and the header and numMerkleRoots of every contract, as they were;
\* it appends one transaction to the log and to the unappliedTxns of the
\* contract: a SetHeader with the header of the contract in which only the
\* revision is new (one revision number further) and the spending is raised
\* (storage and upload spending for an upload, download spending for a
\* download), followed for an upload, and only for an upload, by a SetRoot at
\* index numMerkleRoots.
IntentOnlyLogs ==
    [][\A c \in Callers :
          (/\ pc[c] = "leased"
           /\ last'.op \in {"recordUploadIntent", "recordDownloadIntent"}
           /\ last'.res = "ok") =>
             LET sc == heap[held[c]]
                 t == Len(wal')
                 us == wal'[t].Updates
                 h == Unmarshal(us[1].Instructions[2])
             IN /\ files' = files
                /\ disk' = disk
                /\ \A i \in 1..Len(heap) :
                      /\ heap'[i].header = heap[i].header
                      /\ heap'[i].numMerkleRoots = heap[i].numMerkleRoots
                      /\ i # held[c] => heap'[i] = heap[i]
                /\ Len(heap') = Len(heap)
                /\ wal' = Append(wal, wal'[t])
                /\ ~wal'[t].applied
                /\ heap'[held[c]].unappliedTxns = Append(sc.unappliedTxns, t)
                /\ us[1].Name = updateNameSetHeader
                /\ us[1].Instructions[1] = ID(sc.header)
                /\ LastRevision(h).ParentID = ID(sc.header)
                /\ LastRevision(h).NewRevisionNumber =
                      LastRevision(sc.header).NewRevisionNumber + 1
                /\ [h EXCEPT !.Transaction.FileContractRevisions =
                                sc.header.Transaction.FileContractRevisions,
                             !.DownloadSpending = 0,
                             !.StorageSpending = 0,
                             !.UploadSpending = 0]
                     = [sc.header EXCEPT !.DownloadSpending = 0,
                                         !.StorageSpending = 0,
                                         !.UploadSpending = 0]
                /\ IF last'.op = "recordUploadIntent"
                   THEN /\ h.StorageSpending > sc.header.StorageSpending
                        /\ h.UploadSpending > sc.header.UploadSpending
                        /\ h.DownloadSpending = sc.header.DownloadSpending
                        /\ Len(us) = 2
                        /\ us[2].Name = updateNameSetRoot
                        /\ us[2].Instructions[1] = ID(sc.header)
                        /\ us[2].Instructions[3] = sc.numMerkleRoots
                   ELSE /\ h.DownloadSpending > sc.header.DownloadSpending
                        /\ h.StorageSpending = sc.header.StorageSpending
                        /\ h.UploadSpending = sc.header.UploadSpending
                        /\ Len(us) = 1]_vars

\* C16 witness: an upload intent was recorded on a contract of two roots that
\* has spent on an upload and a download before
IntentRecorded ==
    /\ last.op = "recordUploadIntent"
    /\ last.res = "ok"
    /\ pc[1] = "upload"
    /\ heap[held[1]].numMerkleRoots = 2
    /\ heap[held[1]].header.DownloadSpending > 0
    /\ heap[held[1]].unappliedTxns = <<3>>
    /\ LoggedIndex(3) = 2

\* C17: when commitTxns signals a transaction applied, it is one of the
\* unappliedTxns of the contract, the ones before it in the list are
\* signalled and the ones after it are not, the file holds its header (and
\* its root at its index) and nothing of a later transaction, all of it
\* synced, and this is the one change to the log; when commitTxns returns
\* without error, unappliedTxns is empty and every transaction that was in
\* it is signalled applied.
ReplayInOrder ==
    [][\A c \in Callers :
          LET sc == heap[held[c]]
              txns == sc.unappliedTxns
          IN /\ (/\ pc[c] = "ctSignal"
                 /\ last'.op = "commitTxns"
                 /\ last'.res # "err") =>
                   \E k \in 1..Len(txns) :
                      LET t == txns[k] IN
                      /\ ~wal[t].applied
                      /\ wal' = [wal EXCEPT ![t].applied = TRUE]
                      /\ \A j \in 1..Len(txns) :
                            /\ j < k => wal[txns[j]].applied /\ txns[j] < t
                            /\ j > k => ~wal[txns[j]].applied
                      /\ files[sc.f].hdr = Marshal(LoggedHeader(t))
                      /\ Len(wal[t].Updates) = 2 =>
                            /\ Len(files[sc.f].rootsAt) > LoggedIndex(t)
                            /\ files[sc.f].rootsAt[LoggedIndex(t) + 1] = LoggedRoot(t)
                      /\ disk[sc.f] = files[sc.f]
             /\ (/\ pc[c] \in {"leased", "ctSignal"}
                 /\ last'.op = "commitTxns"
                 /\ last'.res = "ok") =>
                   /\ heap'[held[c]].unappliedTxns = <<>>
                   /\ \A k \in 1..Len(txns) : wal'[txns[k]].applied]_vars

\* C17 witness: commitTxns has returned without error after replaying two
\* uploads that were recorded on the same header and abandoned
TwoReplayed ==
    /\ last.op = "commitTxns"
    /\ last.res = "ok"
    /\ Len(wal) = 2
    /\ wal[1].applied /\ wal[2].applied
    /\ Len(wal[1].Updates) = 2 /\ Len(wal[2].Updates) = 2
    /\ LoggedHeader(1).StorageSpending = LoggedHeader(2).StorageSpending
    /\ LoggedRoot(1) # LoggedRoot(2)
    /\ files[1].hdr = Marshal(LoggedHeader(2))
    /\ files[1].rootsAt[LoggedIndex(2) + 1] = LoggedRoot(2)

\* C18: every step that puts a SafeContract into the registry is made by an
\* operation that holds cs.mu while it assigns the map entry.
RegistryInsertLocked ==
    [][(\E id \in IDs : contracts'[id] # 0 /\ contracts'[id] # contracts[id])
          => last'.op \in LocksRegistry]_vars

\* transaction t is in the unappliedTxns of the SafeContract sc
Unapplied(sc, t) == \E k \in 1..Len(sc.unappliedTxns) : sc.unappliedTxns[k] = t

\* C19: when, after a restart, commitTxns has replayed what loadSafeContract
\* attached, the contract is not behind what was committed before the
\* restart: its revision number and its spending are not lower, and the
\* committed roots are still in their slots.
CommittedSurvives ==
    (/\ before[1].ok
     /\ contracts[1] # 0
     /\ last.op = "commitTxns"
     /\ last.res = "ok") =>
        LET h == heap[contracts[1]].header
            b == before[1]
        IN /\ LastRevision(h).NewRevisionNumber >=
                 LastRevision(b.header).NewRevisionNumber
           /\ h.StorageSpending >= b.header.StorageSpending
           /\ h.UploadSpending >= b.header.UploadSpending
           /\ h.DownloadSpending >= b.header.DownloadSpending
           /\ Len(files[1].rootsAt) >= Len(b.roots)
           /\ SubSeq(files[1].rootsAt, 1, Len(b.roots)) = b.roots

\* C20: every transaction of the log is signalled applied or is in the
\* unappliedTxns of a contract, and no step takes a transaction out of the
\* unappliedTxns of a contract without the transaction being signalled
\* applied.
PendingListAgrees ==
    /\ [](\A t \in 1..Len(wal) :
            wal[t].applied \/ \E i \in 1..Len(heap) : Unapplied(heap[i], t))
    /\ [][\A i \in 1..Len(heap) : \A t \in 1..Len(wal) :
             (Unapplied(heap[i], t) /\ Len(heap') >= i /\ ~Unapplied(heap'[i], t))
                => wal'[t].applied]_vars

\* what commitTxns makes of the contract caller c holds by applying the
\* updates of the transaction c recorded
Replayed(c) == applyUpdates(State(files, heap), held[c], wal[loc[c].t].Updates)

\* what commitUpload makes of it with the signed transaction, the root and
\* the costs of the intent
Committed(c) ==
    LET sc == heap[held[c]]
        newHeader == commitUploadHeaderOf(sc.header,
                                          SignedTxn(LoggedRevision(loc[c].t)),
                                          loc[c].costs)
    IN applySetRoot(applySetHeader(State(files, heap), held[c], newHeader),
                    held[c], loc[c].root, sc.numMerkleRoots)

\* C21: for an upload intent that is the only transaction pending on its
\* contract, applying the logged updates as commitTxns does and committing as
\* commitUpload does with the same root and costs leave the same root slots
\* in the file, the same numMerkleRoots and the same three spending values;
\* the two headers are equal once the embedded transaction is set aside.
ReplayAgreesWithCommit ==
    \A c \in Callers :
        (pc[c] = "upload" /\ heap[held[c]].unappliedTxns = <<loc[c].t>>) =>
            LET sc == held[c]
                f == heap[sc].f
                r == Replayed(c)
                m == Committed(c)
            IN /\ r.files[f].rootsAt = m.files[f].rootsAt
               /\ r.heap[sc].numMerkleRoots = m.heap[sc].numMerkleRoots
               /\ r.heap[sc].header.StorageSpending = m.heap[sc].header.StorageSpending
               /\ r.heap[sc].header.UploadSpending = m.heap[sc].header.UploadSpending
               /\ r.heap[sc].header.DownloadSpending = m.heap[sc].header.DownloadSpending
               /\ [r.heap[sc].header EXCEPT !.Transaction = ZeroHeader.Transaction]
                    = [m.heap[sc].header EXCEPT !.Transaction = ZeroHeader.Transaction]
               /\ Unmarshal(r.files[f].hdr) = r.heap[sc].header
               /\ Unmarshal(m.files[f].hdr) = m.heap[sc].header

\* C21 witness: an upload intent is the only pending transaction of a
\* contract that has two roots and has spent on an upload and a download;
\* either path adds the third root and raises the spending, and the two
\* headers differ in the embedded transaction
BothPathsApply ==
    /\ pc[1] = "upload"
    /\ heap[held[1]].unappliedTxns = <<loc[1].t>>
    /\ heap[held[1]].numMerkleRoots = 2
    /\ heap[held[1]].header.DownloadSpending > 0
    /\ Replayed(1).heap[held[1]].numMerkleRoots = 3
    /\ Replayed(1).files[1].rootsAt[3] = loc[1].root
    /\ Replayed(1).heap[held[1]].header.StorageSpending >
          heap[held[1]].header.StorageSpending
    /\ Replayed(1).heap[held[1]].header # Committed(1).heap[held[1]].header

====
